---- MODULE Spec2Model ----
(***************************************************************************)
(* Model of the Idol runtime crate (src/runtime/src/lib.rs):               *)
(*   - the two generic server dispatch routines, dispatch and dispatch_n;  *)
(*   - the Leased<A, T> handle, its constructors and its accessors.        *)
(* The kernel (sys_recv, sys_reply, sys_borrow_info, ...) and the server trait  *)
(* implementations are the environment: their results are chosen from      *)
(* small sets.                                                             *)
(***************************************************************************)
EXTENDS Integers, Sequences, FiniteSets, TLC

\* ---------------------------------------------------------------- bounds
\* Largest scratch buffer length (buffer.len()) a caller passes.
MaxBuf == 1
\* Largest rm.message_len the kernel reports.
MaxMsgLen == 2
\* Largest rm.response_capacity the kernel reports.
MaxCap == 2
\* Largest value of Op::max_reply_size().
MaxReply == 2
\* Largest error code a handler returns in Err(code).
MaxCode == 3

\* Largest generation the lender task reaches (it restarts MaxGen times).
MaxGen == 1
\* Largest byte length of a lease.
MaxLeaseBytes == 4
\* Largest index, range.start and range.end an accessor is called with.
MaxIdx == 1
\* Largest length, in elements, of the dest / src slice of a range accessor.
MaxSlice == 1
\* Width of usize in bits.
UsizeBits == 4

\* Byte values in leased memory.
Bytes == {0, 1}

\* Task identities that can send messages.
Tasks == {1, 2}
\* TaskId::KERNEL, the sender of notifications.
KERNEL == 65535
\* Operation codes carried by task messages; Ops are the interface's enum.
OpCodes == {0, 1, 2, 3}
Ops == {1, 2}
\* Notification masks / bit sets (two notification bits).
Masks == {0, 1, 2, 3}

\* Option<T>: None is the empty sequence, Some(x) the one-element sequence.
None == <<>>
Some(x) == <<x>>
\* The value of rm before sys_recv has returned a message.
NoMsg == [sender |-> 0, operation |-> 0, message_len |-> 0, response_capacity |-> 0]

VARIABLES
    \* -- dispatch / dispatch_n: one call at a time
    pc,          \* "idle", "recv", "body", "returned", "panicked"
    variant,     \* "none", "dispatch", "dispatch_n"
    buflen,      \* buffer.len() of the scratch buffer of this call
    mask,        \* notification mask handed to sys_recv
    source,      \* server.recv_source(): None (open) or Some(task) (closed)
    recv_result, \* "none", "ok", "err": what sys_recv returned
    rm,          \* the RecvMessage (NoMsg until sys_recv returns one)
    max_reply,   \* the interface: Op -> max_reply_size
    replies,     \* sys_reply calls made by the loop in this call
    handled,     \* Server::handle invocations of this call
    notified,    \* handle_notification invocations of this call (the bits)
    closed_fails,\* closed_recv_fail invocations of this call
    recvs,       \* sys_recv calls of this call
    trace,       \* the steps of the routine taken in this call, in order
    server,      \* the server of this call: what its recv_source() and
                 \* current_notification_mask() return, and how often the
                 \* latter was called
    \* -- Leased<A, T>: one lender task, one server holding one handle
    gen,         \* generation of the lender task (part of its TaskId)
    table,       \* the lender's lease table: entries [atts, data]
    handle,      \* the Leased value the server holds: None or Some(fields)
    result,      \* the last constructor or accessor call: arguments, kernel
                 \* answer, outcome
    hist         \* the accessor calls made since the lender last acted (the
                 \* last two), each with the lease table before and after

dvars == <<pc, variant, buflen, mask, source, recv_result, rm, max_reply,
           replies, handled, notified, closed_fails, recvs, trace, server>>

lvars == <<gen, table, handle, result>>

vars == <<dvars, lvars, hist>>

\* ------------------------------------------------------- pure helpers

RECURSIVE BitAnd(_, _)
BitAnd(a, b) ==
    IF a = 0 \/ b = 0 THEN 0
    ELSE (IF a % 2 = 1 /\ b % 2 = 1 THEN 1 ELSE 0) + 2 * BitAnd(a \div 2, b \div 2)

\* Op::from_u32: Some(op) for a member of the enumeration, None otherwise.
from_u32(code) == IF code \in Ops THEN Some(code) ELSE None

\* ServerOp::max_reply_size
max_reply_size(op) == max_reply[op]

\* rm.message_len > buffer.len()
incoming_truncated(m, blen) == m.message_len > blen

\* rm.response_capacity < op.max_reply_size()
reply_would_truncate(m, op) == m.response_capacity < max_reply_size(op)

\* rm.sender == TaskId::KERNEL
is_notification_Never(m) == FALSE
is_notification(m) == m.sender = KERNEL

\* A reply sent to the kernel's identity instead of the given task.
sys_reply_ToKernel(to, code) == [to |-> KERNEL, code |-> code, len |-> 0]

\* sys_reply(sender, code, &[]): the reply record appended to the log.
sys_reply(to, code) == [to |-> to, code |-> code, len |-> 0]

\* What Server::handle may return.
HandlerResults ==
    {[ok |-> TRUE, code |-> 0]} \cup {[ok |-> FALSE, code |-> c] : c \in 0..MaxCode}

\* The match on server.handle(..)'s result: Ok sends nothing, Err(code) replies.
handle_result_replies_Silent(sender, res) == <<>>
handle_result_replies(sender, res) ==
    IF res.ok THEN <<>> ELSE <<sys_reply(sender, res.code)>>

\* Messages sys_recv can deliver for a given mask and source.
RecvMessages(msk, src) ==
    LET senders == IF src = None THEN Tasks ELSE {src[1]}
        fromTasks == [sender : senders, operation : OpCodes,
                      message_len : 0..MaxMsgLen, response_capacity : 0..MaxCap]
        bits == {b \in Masks : b # 0 /\ BitAnd(b, msk) = b}
        fromKernel == [sender : {KERNEL}, operation : bits,
                       message_len : 0..MaxMsgLen, response_capacity : 0..MaxCap]
    IN  fromTasks \cup fromKernel

\* ------------------------------------------------------------ actions

\* No server yet (a server given to dispatch has no notification mask).
NoServer == [mask |-> None, source |-> None, mask_queries |-> 0]

\* The mask given to sys_recv with 0 for dispatch_n as well.
recv_mask_Zero(v, cur) == 0

\* The mask given to sys_recv: 0 in dispatch, in dispatch_n what
\* current_notification_mask() returned.
recv_mask(v, cur) == IF v = "dispatch" THEN 0 ELSE cur[1]

DispatchInit ==
    /\ pc = "idle"
    /\ variant = "none"
    /\ buflen = 0
    /\ mask = 0
    /\ source = None
    /\ recv_result = "none"
    /\ rm = NoMsg
    /\ max_reply \in [Ops -> 0..MaxReply]
    /\ replies = <<>>
    /\ handled = <<>>
    /\ notified = <<>>
    /\ closed_fails = 0
    /\ recvs = 0
    /\ trace = <<>>
    /\ server = NoServer

\* Entry of a call up to the sys_recv call, which blocks.
Enter(v, blen, cur, src) ==
    /\ pc \in {"idle", "returned"}
    /\ pc' = "recv"
    /\ variant' = v
    /\ buflen' = blen
    /\ server' = [mask |-> cur, source |-> src,
                  mask_queries |-> IF cur = None THEN 0 ELSE 1]
    /\ mask' = recv_mask(v, cur)
    /\ source' = server'.source
    /\ recv_result' = "none"
    /\ rm' = NoMsg
    /\ replies' = <<>>
    /\ handled' = <<>>
    /\ notified' = <<>>
    /\ closed_fails' = 0
    /\ recvs' = 1
    /\ trace' = <<"recv">>
    /\ UNCHANGED max_reply

\* dispatch: sys_recv(buffer, 0, server.recv_source())
dispatch_call ==
    \E blen \in 0..MaxBuf, src \in {None} \cup {Some(t) : t \in Tasks} :
        Enter("dispatch", blen, None, src)

\* dispatch_n: mask = current_notification_mask(); sys_recv(buffer, mask, ..)
dispatch_n_call ==
    \E blen \in 0..MaxBuf, src \in {None} \cup {Some(t) : t \in Tasks}, msk \in Masks :
        Enter("dispatch_n", blen, Some(msk), src)

\* sys_recv returns Ok(rm).
sys_recv_ok ==
    /\ pc = "recv"
    /\ \E m \in RecvMessages(mask, source) :
        /\ rm' = m
        /\ recv_result' = "ok"
        /\ pc' = "body"
    /\ UNCHANGED <<variant, buflen, mask, source, max_reply, replies, handled,
                   notified, closed_fails, recvs, trace>>

\* sys_recv returns Err(_): the task named by a closed receive has died.
\* Err(_) => { server.closed_recv_fail(); return; }
sys_recv_err_Replies ==
    /\ pc = "recv"
    /\ source # None
    /\ recv_result' = "err"
    /\ closed_fails' = closed_fails + 1
    /\ trace' = Append(trace, "closed_recv_fail")
    /\ replies' = Append(replies, sys_reply(source[1], 1))
    /\ pc' = "returned"
    /\ UNCHANGED <<variant, buflen, mask, source, rm, max_reply, handled,
                   notified, recvs>>
sys_recv_err ==
    /\ pc = "recv"
    /\ source # None
    /\ recv_result' = "err"
    /\ closed_fails' = closed_fails + 1
    /\ trace' = Append(trace, "closed_recv_fail")
    /\ pc' = "returned"
    /\ UNCHANGED <<variant, buflen, mask, source, rm, max_reply, replies,
                   handled, notified, recvs>>

\* The handle invocation and the match on its result (shared tail of both
\* routines): server.handle(op, incoming, &rm).
InvokeHandler(op, tr) ==
    \E res \in HandlerResults :
        /\ handled' = Append(handled, [op |-> op, incoming_len |-> rm.message_len,
                                       sender |-> rm.sender, result |-> res])
        /\ replies' = replies \o handle_result_replies(rm.sender, res)
        /\ trace' = tr \o <<"handle">>
                       \o (IF handle_result_replies(rm.sender, res) = <<>>
                           THEN <<>> ELSE <<"reply">>)
        /\ pc' = "returned"
        /\ UNCHANGED notified

\* A rejection reply: sys_reply(rm.sender, code, &[]); return;
Reject(code, tr) ==
    /\ replies' = Append(replies, sys_reply(rm.sender, code))
    /\ trace' = tr \o <<"reply">>
    /\ pc' = "returned"
    /\ UNCHANGED <<handled, notified>>

\* dispatch, after sys_recv returned Ok(rm).
dispatch_body ==
    /\ pc = "body"
    /\ variant = "dispatch"
    /\ LET op == from_u32(rm.operation)
           t1 == Append(trace, "resolve")
           t2 == Append(t1, "bounds")
       IN  IF op = None
           THEN Reject(1, t1)
           ELSE IF incoming_truncated(rm, buflen) \/ reply_would_truncate(rm, op[1])
                THEN Reject(2, t2)
                ELSE InvokeHandler(op[1], t2)
    /\ UNCHANGED <<variant, buflen, mask, source, recv_result, rm, max_reply,
                   closed_fails, recvs>>

\* dispatch_n, after sys_recv returned Ok(rm).
dispatch_n_body ==
    /\ pc = "body"
    /\ variant = "dispatch_n"
    /\ IF is_notification(rm)
       THEN \* server.1.handle_notification(rm.operation); return;
            /\ notified' = Append(notified, rm.operation)
            /\ trace' = Append(trace, "notify")
            /\ pc' = "returned"
            /\ UNCHANGED <<replies, handled>>
       ELSE IF rm.message_len > buflen
       THEN \* let incoming = &buffer[..rm.message_len]; slice index out of
            \* range: panic.
            /\ trace' = Append(trace, "slice")
            /\ pc' = "panicked"
            /\ UNCHANGED <<replies, handled, notified>>
       ELSE LET op == from_u32(rm.operation)
                t0 == Append(trace, "slice")
                t1 == Append(t0, "resolve")
                t2 == Append(t1, "bounds")
            IN  IF op = None
                THEN Reject(1, t1)
                ELSE IF reply_would_truncate(rm, op[1])
                     THEN Reject(2, t2)
                     ELSE InvokeHandler(op[1], t2)
    /\ UNCHANGED <<variant, buflen, mask, source, recv_result, rm, max_reply,
                   closed_fails, recvs>>

\* ------------------------------------------------ Leased<A, T>: helpers

\* core::mem::size_of::<T>() of the element type T.
size_of_T == 2

\* usize::MAX
usize_max == 2^UsizeBits - 1

\* usize::checked_mul
checked_mul(x, y) == IF x * y > usize_max THEN None ELSE Some(x * y)

\* range.end - range.start in a build without overflow checks: it wraps.
wrapping_sub(x, y) == (x - y + usize_max + 1) % (usize_max + 1)

Min(x, y) == IF x <= y THEN x ELSE y

\* T::new_zeroed().as_bytes(): size_of_T zero bytes; for a slice of d elements.
zeroed(nbytes) == [i \in 1..nbytes |-> 0]

\* The bytes a lender puts in a lease of nbytes bytes.
LentData(nbytes) == [k \in 1..nbytes |-> (k + (k \div 3)) % 2]

\* The lease tables a lender can present: no lease, or one lease (index 0)
\* with some attributes and any length up to MaxLeaseBytes.
LeaseTables ==
    {<<>>} \cup {<<[atts |-> a, data |-> LentData(l)]>> :
                    a \in {{"READ"}, {"WRITE"}, {"READ", "WRITE"}},
                    l \in 0..MaxLeaseBytes}

\* Values of T a server writes (as_bytes of the value): uniform bytes.
TValues == {[i \in 1..size_of_T |-> b] : b \in Bytes}

RECURSIVE Flatten(_)
Flatten(ss) == IF ss = <<>> THEN <<>> ELSE Head(ss) \o Flatten(Tail(ss))

\* src slices of write_range, as elements: d copies of one value.
SrcSlices == {[i \in 1..d |-> v] : d \in 0..MaxSlice, v \in TValues}

\* The copy that leaves dst as it was.
copy_into_Dropped(dst, bytes) == dst

\* dst with its first Len(bytes) bytes overwritten by bytes.
copy_into(dst, bytes) ==
    [i \in 1..Len(dst) |-> IF i <= Len(bytes) THEN bytes[i] ELSE dst[i]]

\* sys_borrow_info(lender, index): None if the lender's generation has
\* changed or the index is no entry of its lease table.
sys_borrow_info(lender, index) ==
    IF lender # gen \/ index >= Len(table)
    THEN None
    ELSE Some([len |-> Len(table[index + 1].data),
               attributes |-> table[index + 1].atts])

\* sys_borrow_read(lender, index, offset, dest): (rc, len) and the bytes
\* copied. A dead lender gives a nonzero "dead" code, a bad index, missing
\* READ attribute or offset beyond the lease a nonzero defect code; else
\* the copy is cut to what is left of the lease and to dest's length.
sys_borrow_read(lender, index, offset, destlen) ==
    IF lender # gen
    THEN [rc |-> 2, n |-> 0, bytes |-> <<>>]
    ELSE IF \/ index >= Len(table)
            \/ "READ" \notin table[index + 1].atts
            \/ offset > Len(table[index + 1].data)
    THEN [rc |-> 1, n |-> 0, bytes |-> <<>>]
    ELSE LET data == table[index + 1].data
             n == Min(Len(data) - offset, destlen)
         IN  [rc |-> 0, n |-> n, bytes |-> SubSeq(data, offset + 1, offset + n)]

\* sys_borrow_write(lender, index, offset, src): (rc, len) and the lease
\* table after the copy.
sys_borrow_write(lender, index, offset, src) ==
    IF lender # gen
    THEN [rc |-> 2, n |-> 0, table |-> table]
    ELSE IF \/ index >= Len(table)
            \/ "WRITE" \notin table[index + 1].atts
            \/ offset > Len(table[index + 1].data)
    THEN [rc |-> 1, n |-> 0, table |-> table]
    ELSE LET data == table[index + 1].data
             n == Min(Len(data) - offset, Len(src))
             data2 == [i \in 1..Len(data) |->
                          IF i > offset /\ i <= offset + n THEN src[i - offset]
                          ELSE data[i]]
         IN  [rc |-> 0, n |-> n,
              table |-> [table EXCEPT ![index + 1].data = data2]]

\* The test accepting a copy longer than expected.
copy_failed_ShortOnly(rc, len, expected) == rc # 0 \/ len < expected

\* rc != 0 || len != expected: the test every accessor makes on a raw copy.
copy_failed_IgnoresStatus(rc, len, expected) == len # expected
copy_failed(rc, len, expected) == rc # 0 \/ len # expected

\* A: AttributeRead (R, RW) / A: AttributeWrite (W, RW).
AttributeRead(h) == h.attr \in {"R", "RW"}
AttributeWrite(h) == h.attr \in {"W", "RW"}

\* check_sized accepting any lease at least one T long.
check_sized_AtLeast(lender, index, required_atts) ==
    LET info == sys_borrow_info(lender, index)
    IN  IF info = None THEN None
        ELSE IF ~(required_atts \subseteq info[1].attributes) THEN None
        ELSE IF info[1].len < size_of_T THEN None
        ELSE Some(<<>>)

\* check_slice without the test that the lease is a whole number of T long.
check_slice_NoModulus(lender, index, required_atts, max_len) ==
    LET info == sys_borrow_info(lender, index)
    IN  IF info = None THEN None
        ELSE IF ~(required_atts \subseteq info[1].attributes) THEN None
        ELSE LET len == info[1].len \div size_of_T
             IN  IF max_len # None /\ len > max_len[1] THEN None
                 ELSE Some(len)

\* check_sized: Some(()) iff the lease exists, has the attribute and is
\* exactly one T long.
check_sized(lender, index, required_atts) ==
    LET info == sys_borrow_info(lender, index)
    IN  IF info = None THEN None
        ELSE IF ~(required_atts \subseteq info[1].attributes) THEN None
        ELSE IF info[1].len # size_of_T THEN None
        ELSE Some(<<>>)

\* check_slice: Some(len) iff the lease exists, has the attribute, is a
\* whole number of T long and holds at most max_len elements.
check_slice(lender, index, required_atts, max_len) ==
    LET info == sys_borrow_info(lender, index)
    IN  IF info = None THEN None
        ELSE IF ~(required_atts \subseteq info[1].attributes) THEN None
        ELSE IF info[1].len % size_of_T # 0 THEN None
        ELSE LET len == info[1].len \div size_of_T
             IN  IF max_len # None /\ len > max_len[1] THEN None
                 ELSE Some(len)

\* The fields of a Leased value (attr and slice are its type parameters).
Leased(lender, index, len, attr, slice) ==
    [lender |-> lender, index |-> index, len |-> len, attr |-> attr, slice |-> slice]

\* The record of an accessor call: op and arguments (a = index or
\* range.start, b = range.end, d = elements in dest / src), what the raw
\* primitive answered (calls = 0: it was not called), and the outcome.
Outcome(op, a, b, d, kind, value, calls, rc, n) ==
    [op |-> op, a |-> a, b |-> b, d |-> d, kind |-> kind, value |-> value,
     calls |-> calls, rc |-> rc, n |-> n, dead |-> handle[1].lender # gen,
     max_len |-> None, info |-> None]

NoResult ==
    [op |-> "none", a |-> 0, b |-> 0, d |-> 0, kind |-> "none", value |-> <<>>,
     calls |-> 0, rc |-> 0, n |-> 0, dead |-> FALSE,
     max_len |-> None, info |-> None]

\* The record of a constructor call: op and arguments (a = lender, b = index,
\* max_len), the descriptor its one sys_borrow_info query returned, and
\* whether it returned a handle (made = what the check returned).
Built(op, lender, index, max_len, made) ==
    [op |-> op, a |-> lender, b |-> index, d |-> 0,
     kind |-> IF made = None THEN "None" ELSE "Some", value |-> <<>>,
     calls |-> 1, rc |-> 0, n |-> 0, dead |-> FALSE,
     max_len |-> max_len, info |-> sys_borrow_info(lender, index)]

\* ------------------------------------------------ Leased<A, T>: actions

LeaseInit ==
    /\ gen = 0
    /\ table \in LeaseTables
    /\ handle = None
    /\ result = NoResult

\* The server task runs (it has not panicked).
Running == result.kind # "panic"

\* The lender task is restarted: new generation, its leases are gone.
lender_restart ==
    /\ gen < MaxGen
    /\ gen' = gen + 1
    /\ table' = <<>>
    /\ UNCHANGED <<handle, result>>

\* The lender's exchange ends: the kernel releases its leases.
lender_unlends ==
    /\ table # <<>>
    /\ table' = <<>>
    /\ UNCHANGED <<gen, handle, result>>

\* The lender sends again, lending a region of any size and attributes.
lender_lends ==
    /\ table = <<>>
    /\ \E t \in LeaseTables : t # table /\ table' = t
    /\ UNCHANGED <<gen, handle, result>>

\* The server drops its Leased value at the end of the handling call.
drop_handle ==
    /\ Running
    /\ handle # None
    /\ handle' = None
    /\ result' = NoResult
    /\ UNCHANGED <<gen, table>>

\* The attributes a constructor of capability attr requires of the lease.
required_atts(attr) ==
    CASE attr = "R" -> {"READ"}
      [] attr = "W" -> {"WRITE"}
      [] attr = "RW" -> {"READ", "WRITE"}

\* The name of the constructor of capability attr.
constructor(attr, slice) ==
    (CASE attr = "R" -> "read_only"
       [] attr = "W" -> "write_only"
       [] attr = "RW" -> "read_write") \o (IF slice THEN "_slice" ELSE "")

\* Leased::<R, T>::read_only / Leased::<W, T>::write_only
new_sized(attr, lender, index) ==
    /\ Running
    /\ handle = None
    /\ LET ok == check_sized(lender, index, required_atts(attr))
       IN  /\ handle' = IF ok = None THEN None
                         ELSE Some(Leased(lender, index, 1, attr, FALSE))
           /\ result' = Built(constructor(attr, FALSE), lender, index, None, ok)
    /\ UNCHANGED <<gen, table>>

read_only == \E lender \in 0..MaxGen, index \in 0..1 : new_sized("R", lender, index)

write_only == \E lender \in 0..MaxGen, index \in 0..1 : new_sized("W", lender, index)

\* Leased::<R, [T]>::read_only_slice / Leased::<W, [T]>::write_only_slice
new_slice(attr, lender, index, max_len) ==
    /\ Running
    /\ handle = None
    /\ LET len == check_slice(lender, index, required_atts(attr), max_len)
       IN  /\ handle' = IF len = None THEN None
                         ELSE Some(Leased(lender, index, len[1], attr, TRUE))
           /\ result' = Built(constructor(attr, TRUE), lender, index, max_len, len)
    /\ UNCHANGED <<gen, table>>

MaxLens == {None} \cup {Some(m) : m \in 1..MaxSlice}

read_only_slice ==
    \E lender \in 0..MaxGen, index \in 0..1, max_len \in MaxLens :
        new_slice("R", lender, index, max_len)

write_only_slice ==
    \E lender \in 0..MaxGen, index \in 0..1, max_len \in MaxLens :
        new_slice("W", lender, index, max_len)

\* The constructors of a read-write handle, which the generated stub code
\* supplies: they validate both attributes.
read_write == \E lender \in 0..MaxGen, index \in 0..1 : new_sized("RW", lender, index)

read_write_slice ==
    \E lender \in 0..MaxGen, index \in 0..1, max_len \in MaxLens :
        new_slice("RW", lender, index, max_len)

\* A raw read that is made a second time when the first copy failed.
raw_read_Retrying(op, a, b, d, offset, nbytes, expected, some, none) ==
    LET h == handle[1]
        r == sys_borrow_read(h.lender, h.index, offset, nbytes)
        temp == copy_into(zeroed(nbytes), r.bytes)
    IN  IF copy_failed(r.rc, r.n, expected)
        THEN Outcome(op, a, b, d, none, <<>>, 2, r.rc, r.n)
        ELSE Outcome(op, a, b, d, some, temp, 1, r.rc, r.n)

\* A raw read that hands out the zeroed storage when the previous call
\* already returned what the lender holds.
raw_read_Stale(op, a, b, d, offset, nbytes, expected, some, none) ==
    LET h == handle[1]
        r == sys_borrow_read(h.lender, h.index, offset, nbytes)
        temp == copy_into(zeroed(nbytes), r.bytes)
    IN  IF copy_failed(r.rc, r.n, expected)
        THEN Outcome(op, a, b, d, none, <<>>, 1, r.rc, r.n)
        ELSE Outcome(op, a, b, d, some,
                     IF result.value = temp THEN zeroed(nbytes) ELSE temp,
                     1, r.rc, r.n)

\* The raw read of nbytes at offset into zeroed storage, and the test on it:
\* the outcome of read / read_at (some = "Some", none = "None") and of
\* read_range (some = "Ok", none = "Err").
raw_read(op, a, b, d, offset, nbytes, expected, some, none) ==
    LET h == handle[1]
        r == sys_borrow_read(h.lender, h.index, offset, nbytes)
        temp == copy_into(zeroed(nbytes), r.bytes)
    IN  IF copy_failed(r.rc, r.n, expected)
        THEN Outcome(op, a, b, d, none, <<>>, 1, r.rc, r.n)
        ELSE Outcome(op, a, b, d, some, temp, 1, r.rc, r.n)

\* The usize arguments a caller passes as an index or a range bound: the small
\* ones and the largest.
Indices == 0..MaxIdx \cup {usize_max}

\* Leased::read
read ==
    /\ Running /\ handle # None
    /\ ~handle[1].slice /\ AttributeRead(handle[1])
    /\ result' = raw_read("read", 0, 0, 0, 0, size_of_T, size_of_T, "Some", "None")
    /\ UNCHANGED <<gen, table, handle>>

\* Leased::read_at
read_at ==
    /\ Running /\ handle # None
    /\ handle[1].slice /\ AttributeRead(handle[1])
    /\ \E index \in Indices :
        LET offset == checked_mul(size_of_T, index)
        IN  result' =
              IF ~(index < handle[1].len)
              THEN Outcome("read_at", index, 0, 0, "panic", <<>>, 0, 0, 0)
              ELSE IF offset = None
              THEN Outcome("read_at", index, 0, 0, "None", <<>>, 0, 0, 0)
              ELSE raw_read("read_at", index, 0, 0, offset[1], size_of_T,
                            size_of_T, "Some", "None")
    /\ UNCHANGED <<gen, table, handle>>

\* Leased::read_range. range.end - range.start with start > end panics in a
\* build with overflow checks and wraps in one without: overflow_checks is
\* either.
read_range ==
    /\ Running /\ handle # None
    /\ handle[1].slice /\ AttributeRead(handle[1])
    /\ \E start \in Indices, end \in Indices, d \in 0..MaxSlice :
      \E overflow_checks \in (IF end < start THEN BOOLEAN ELSE {TRUE}) :
        LET offset == checked_mul(size_of_T, start)
            count == IF end >= start THEN end - start ELSE wrapping_sub(end, start)
            expected_len == checked_mul(size_of_T, count)
        IN  result' =
              IF offset = None
              THEN Outcome("read_range", start, end, d, "Err", <<>>, 0, 0, 0)
              ELSE IF end < start /\ overflow_checks
              THEN Outcome("read_range", start, end, d, "panic", <<>>, 0, 0, 0)
              ELSE IF expected_len = None
              THEN Outcome("read_range", start, end, d, "Err", <<>>, 0, 0, 0)
              ELSE raw_read("read_range", start, end, d, offset[1],
                            d * size_of_T, expected_len[1], "Ok", "Err")
    /\ UNCHANGED <<gen, table, handle>>

\* The raw write of src at offset and the test on it: the outcome of write,
\* write_at and write_range, and the lease table after the copy.
raw_write(op, a, b, d, offset, src, expected) ==
    LET h == handle[1]
        r == sys_borrow_write(h.lender, h.index, offset, src)
    IN  [outcome |-> IF copy_failed(r.rc, r.n, expected)
                     THEN Outcome(op, a, b, d, "Err", <<>>, 1, r.rc, r.n)
                     ELSE Outcome(op, a, b, d, "Ok", src, 1, r.rc, r.n),
         table |-> r.table]

\* Leased::write
write ==
    /\ Running /\ handle # None
    /\ ~handle[1].slice /\ AttributeWrite(handle[1])
    /\ \E value \in TValues :
        LET w == raw_write("write", 0, 0, 0, 0, value, size_of_T)
        IN  result' = w.outcome /\ table' = w.table
    /\ UNCHANGED <<gen, handle>>

\* Leased::write_at
write_at ==
    /\ Running /\ handle # None
    /\ handle[1].slice /\ AttributeWrite(handle[1])
    /\ \E index \in Indices, value \in TValues :
        LET offset == checked_mul(size_of_T, index)
        IN  IF offset = None
            THEN /\ result' = Outcome("write_at", index, 0, 0, "Err", <<>>, 0, 0, 0)
                 /\ UNCHANGED table
            ELSE LET w == raw_write("write_at", index, 0, 0, offset[1], value,
                                    size_of_T)
                 IN  result' = w.outcome /\ table' = w.table
    /\ UNCHANGED <<gen, handle>>

\* Leased::write_range (overflow_checks as in read_range).
write_range ==
    /\ Running /\ handle # None
    /\ handle[1].slice /\ AttributeWrite(handle[1])
    /\ \E start \in Indices, end \in Indices, src \in SrcSlices :
      \E overflow_checks \in (IF end < start THEN BOOLEAN ELSE {TRUE}) :
        LET d == Len(src)
            offset == checked_mul(size_of_T, start)
            count == IF end >= start THEN end - start ELSE wrapping_sub(end, start)
            expected_len == checked_mul(size_of_T, count)
        IN  IF offset = None
            THEN /\ result' = Outcome("write_range", start, end, d, "Err", <<>>, 0, 0, 0)
                 /\ UNCHANGED table
            ELSE IF end < start /\ overflow_checks
            THEN /\ result' = Outcome("write_range", start, end, d, "panic", <<>>, 0, 0, 0)
                 /\ UNCHANGED table
            ELSE IF expected_len = None
            THEN /\ result' = Outcome("write_range", start, end, d, "Err", <<>>, 0, 0, 0)
                 /\ UNCHANGED table
            ELSE LET w == raw_write("write_range", start, end, d, offset[1],
                                    Flatten(src), expected_len[1])
                 IN  result' = w.outcome /\ table' = w.table
    /\ UNCHANGED <<gen, handle>>

\* ------------------------------------------------------ specifications

\* The lease side while the dispatch routines are examined: nothing lent.
LeaseParked ==
    /\ gen = 0
    /\ table = <<>>
    /\ handle = None
    /\ result = NoResult

\* The dispatch side while the lease accessors are examined: no call made.
DispatchParked ==
    /\ DispatchInit
    /\ max_reply = [op \in Ops |-> 0]

Init == DispatchInit /\ LeaseParked /\ hist = <<>>

Next ==
    \/ dispatch_call /\ UNCHANGED <<lvars, hist>>
    \/ dispatch_n_call /\ UNCHANGED <<lvars, hist>>
    \/ sys_recv_ok /\ UNCHANGED <<server, lvars, hist>>
    \/ sys_recv_err /\ UNCHANGED <<server, lvars, hist>>
    \/ dispatch_body /\ UNCHANGED <<server, lvars, hist>>
    \/ dispatch_n_body /\ UNCHANGED <<server, lvars, hist>>

Spec == Init /\ [][Next]_vars

LeaseSpecInit == LeaseInit /\ DispatchParked /\ hist = <<>>

LeaseNext ==
    \/ lender_restart /\ UNCHANGED <<dvars, hist>>
    \/ lender_unlends /\ UNCHANGED <<dvars, hist>>
    \/ lender_lends /\ UNCHANGED <<dvars, hist>>
    \/ drop_handle /\ UNCHANGED <<dvars, hist>>
    \/ read_only /\ UNCHANGED <<dvars, hist>>
    \/ write_only /\ UNCHANGED <<dvars, hist>>
    \/ read_only_slice /\ UNCHANGED <<dvars, hist>>
    \/ write_only_slice /\ UNCHANGED <<dvars, hist>>
    \/ read /\ UNCHANGED <<dvars, hist>>
    \/ read_at /\ UNCHANGED <<dvars, hist>>
    \/ read_range /\ UNCHANGED <<dvars, hist>>
    \/ write /\ UNCHANGED <<dvars, hist>>
    \/ write_at /\ UNCHANGED <<dvars, hist>>
    \/ write_range /\ UNCHANGED <<dvars, hist>>

LeaseSpec == LeaseSpecInit /\ [][LeaseNext]_vars

\* The accessor calls of one handle between two acts of the lender: single
\* elements read and written through read-only and read-write handles.
RoundTripInit == LeaseInit /\ DispatchParked /\ hist = <<>>

\* hist with the call just made added, the last two kept.
Recorded ==
    LET e == [res |-> result', before |-> table, after |-> table']
    IN  IF Len(hist) < 2 THEN Append(hist, e) ELSE <<hist[2], e>>

RoundTripNext ==
    \/ lender_restart /\ hist' = <<>> /\ UNCHANGED dvars
    \/ lender_unlends /\ hist' = <<>> /\ UNCHANGED dvars
    \/ lender_lends /\ hist' = <<>> /\ UNCHANGED dvars
    \/ drop_handle /\ hist' = <<>> /\ UNCHANGED dvars
    \/ read_only /\ hist' = <<>> /\ UNCHANGED dvars
    \/ read_only_slice /\ hist' = <<>> /\ UNCHANGED dvars
    \/ read_write /\ hist' = <<>> /\ UNCHANGED dvars
    \/ read_write_slice /\ hist' = <<>> /\ UNCHANGED dvars
    \/ read /\ hist' = Recorded /\ UNCHANGED dvars
    \/ read_at /\ hist' = Recorded /\ UNCHANGED dvars
    \/ write /\ hist' = Recorded /\ UNCHANGED dvars
    \/ write_at /\ hist' = Recorded /\ UNCHANGED dvars

RoundTripSpec == RoundTripInit /\ [][RoundTripNext]_vars

\* ------------------------------------------------- dispatch: properties

\* The call has ended: it returned, or the task panicked.
Terminal == pc \in {"returned", "panicked"}

\* sys_recv delivered a message sent by a task (not a notification).
TaskMessage == recv_result = "ok" /\ rm.sender # KERNEL

\* C1: in both routines a task message longer than the scratch buffer, with a
\* resolvable operation, gets exactly one reply (status 2, empty payload), the
\* handler is not invoked and the call returns normally.
C1_OversizeRejected ==
    (Terminal /\ TaskMessage /\ rm.message_len > buflen
              /\ from_u32(rm.operation) # None)
    => /\ pc = "returned"
       /\ replies = <<[to |-> rm.sender, code |-> 2, len |-> 0]>>
       /\ handled = <<>>

\* C2: in both routines a task message whose operation code is no member of
\* the enumeration gets exactly one reply (status 1, empty payload) and the
\* handler is not invoked.
C2_UnknownOpRejected ==
    (Terminal /\ TaskMessage /\ from_u32(rm.operation) = None)
    => /\ replies = <<[to |-> rm.sender, code |-> 1, len |-> 0]>>
       /\ handled = <<>>

\* C3: in both routines a task message whose operation resolves and whose
\* reply capacity is below the operation's maximum reply size gets exactly one
\* reply (status 2, empty payload) and no handler call; and the handler runs
\* only with capacity >= max_reply_size(op) and message_len <= buffer.len().
C3_ReplyCapacityChecked ==
    /\ (Terminal /\ TaskMessage /\ from_u32(rm.operation) # None
                 /\ rm.response_capacity < max_reply_size(from_u32(rm.operation)[1]))
       => /\ replies = <<[to |-> rm.sender, code |-> 2, len |-> 0]>>
          /\ handled = <<>>
    /\ \A i \in 1..Len(handled) :
          /\ rm.response_capacity >= max_reply_size(handled[i].op)
          /\ rm.message_len <= buflen

\* The five ways a call may dispose of its one receive.
Dispositions ==
    {d \in {"closed_recv_fail", "notification", "rejection", "handled", "error_reply"} :
        CASE d = "closed_recv_fail" ->
                closed_fails = 1 /\ notified = <<>> /\ handled = <<>> /\ replies = <<>>
          [] d = "notification" ->
                /\ variant = "dispatch_n" /\ Len(notified) = 1
                /\ closed_fails = 0 /\ handled = <<>> /\ replies = <<>>
          [] d = "rejection" ->
                /\ Len(replies) = 1 /\ replies[1].code \in {1, 2}
                /\ closed_fails = 0 /\ handled = <<>> /\ notified = <<>>
          [] d = "handled" ->
                /\ Len(handled) = 1 /\ handled[1].result.ok /\ replies = <<>>
                /\ closed_fails = 0 /\ notified = <<>>
          [] d = "error_reply" ->
                /\ Len(handled) = 1 /\ ~handled[1].result.ok /\ Len(replies) = 1
                /\ closed_fails = 0 /\ notified = <<>>}

\* C4: every call does exactly one receive and ends by returning after
\* exactly one of the five dispositions, with at most one reply sent.
C4_OneDisposition ==
    /\ Len(replies) <= 1
    /\ recvs <= 1
    /\ Terminal => /\ pc = "returned"
                   /\ recvs = 1
                   /\ Cardinality(Dispositions) = 1

\* C5: when handle is invoked and returns Err(c) the loop sends exactly one
\* reply, to the sender, with status c and an empty payload; when it returns
\* Ok(()) the loop sends no reply.
C5_HandlerResultReply ==
    \A i \in 1..Len(handled) :
        /\ pc = "returned"
        /\ handled[i].sender = rm.sender
        /\ IF handled[i].result.ok
           THEN replies = <<>>
           ELSE replies = <<[to |-> rm.sender, code |-> handled[i].result.code,
                             len |-> 0]>>

C5_Witness ==
    /\ pc = "returned"
    /\ Len(handled) = 1
    /\ ~handled[1].result.ok
    /\ handled[1].result.code = MaxCode
    /\ replies = <<[to |-> rm.sender, code |-> MaxCode, len |-> 0]>>

\* C6: in dispatch_n a message from the kernel with bits B in its operation
\* field invokes handle_notification exactly once, with B, and the call then
\* returns: no reply, no slicing, no operation resolution, no bound check and
\* no handle call, whatever message_len and response_capacity are.
C6_NotificationRouted ==
    (variant = "dispatch_n" /\ Terminal /\ recv_result = "ok" /\ rm.sender = KERNEL)
    => /\ pc = "returned"
       /\ notified = <<rm.operation>>
       /\ replies = <<>>
       /\ handled = <<>>
       /\ trace = <<"recv", "notify">>

C6_Witness ==
    /\ variant = "dispatch_n"
    /\ pc = "returned"
    /\ rm.sender = KERNEL
    /\ rm.operation = 3
    /\ rm.message_len > buflen
    /\ rm.response_capacity = 0
    /\ notified = <<3>>

\* C7: in both routines, when sys_recv fails (the sender named by a closed
\* receive is gone) closed_recv_fail is invoked exactly once, nothing is
\* replied, neither handle nor handle_notification runs, and the call returns;
\* the hook is invoked in no other case.
C7_ClosedRecvFailure ==
    /\ (Terminal /\ recv_result = "err")
       => /\ pc = "returned"
          /\ closed_fails = 1
          /\ replies = <<>>
          /\ handled = <<>>
          /\ notified = <<>>
          /\ trace = <<"recv", "closed_recv_fail">>
    /\ closed_fails > 0 => recv_result = "err"

C7_Witness ==
    /\ pc = "returned"
    /\ recv_result = "err"
    /\ source # None
    /\ closed_fails = 1

\* ------------------------------------------------ Leased<A, T>: getters

\* Leased::lender
lender(h) == h.lender

\* Leased::lease_index
lease_index(h) == h.index

\* An element count taken from the lease as it is now.
len_OfLoan(h) ==
    LET info == sys_borrow_info(h.lender, h.index)
    IN  IF info = None THEN 0 ELSE info[1].len \div size_of_T

\* Leased::len
len(h) == h.len

\* Leased::is_empty
is_empty(h) == h.len = 0

\* ---------------------------------------------- Leased<A, T>: properties

\* The arguments of the last accessor call are within the handle's len().
InBounds ==
    CASE result.op \in {"read_at", "write_at"} -> result.a < handle[1].len
      [] result.op \in {"read_range", "write_range"} ->
            result.a <= result.b /\ result.b <= handle[1].len
      [] OTHER -> TRUE

\* C8: once the lender has been destroyed after the handle was constructed,
\* every accessor call with in-bounds arguments makes its one raw call, gets
\* a nonzero status and returns None / Err: it neither panics nor returns a
\* value or Ok.
C8_DeadLenderFails ==
    (result.op # "none" /\ result.dead /\ InBounds)
    => /\ result.kind \in {"None", "Err"}
       /\ result.calls = 1
       /\ result.rc # 0

C8_Witness ==
    /\ handle # None
    /\ handle[1].len = 1
    /\ result.op = "read_range"
    /\ result.a = 0 /\ result.b = 1 /\ result.d = 1
    /\ result.dead
    /\ result.kind = "Err"

\* C9: read_at(i) and write_at(i, v) with i >= len() panic, without a raw
\* borrow call and without returning a value.
C9_IndexOutOfBoundsAborts ==
    (result.op \in {"read_at", "write_at"} /\ result.a >= handle[1].len)
    => /\ result.kind = "panic"
       /\ result.calls = 0

\* C10: read_range and write_range with range.end > len() panic, without a
\* raw borrow call and without returning Ok or Err.
C10_RangeOutOfBoundsAborts ==
    (result.op \in {"read_range", "write_range"} /\ result.b > handle[1].len)
    => /\ result.kind = "panic"
       /\ result.calls = 0


\* C11: read_range and write_range, called with range.start > range.end,
\* reject the call (Err, no raw call made) without the subtraction
\* range.end - range.start underflowing, and an offset multiplication that
\* overflows fails the call instead of wrapping.
C11_ReversedRangeRejected ==
    result.op \in {"read_range", "write_range"} =>
        /\ result.a > result.b => result.kind = "Err" /\ result.calls = 0
        /\ checked_mul(size_of_T, result.a) = None =>
               result.kind = "Err" /\ result.calls = 0


\* The attribute a constructor requires of the lease.
RequiredAtt(op) ==
    IF op \in {"read_only", "read_only_slice"} THEN "READ" ELSE "WRITE"

\* C12: read_only_slice / write_only_slice return a handle exactly when the
\* borrow query returns a descriptor whose attributes include the required
\* one, whose byte length L is a multiple of size_of::<T>() and, when max_len
\* is supplied, whose element count L / S is at most max_len; the handle's
\* len() is then L / S, and it carries the lender and index passed in.
C12_SliceConstructor ==
    result.op \in {"read_only_slice", "write_only_slice"} =>
        LET info == result.info
            accept == /\ info # None
                      /\ RequiredAtt(result.op) \in info[1].attributes
                      /\ info[1].len % size_of_T = 0
                      /\ result.max_len # None =>
                             info[1].len \div size_of_T <= result.max_len[1]
        IN  /\ handle # None <=> accept
            /\ handle # None =>
                 /\ handle[1].len = info[1].len \div size_of_T
                 /\ handle[1].lender = result.a
                 /\ handle[1].index = result.b
                 /\ handle[1].slice

\* A slice constructor refused a lease that has the attribute and is a whole
\* number of elements long, because it holds more than max_len elements.
C12_Witness ==
    /\ result.op \in {"read_only_slice", "write_only_slice"}
    /\ handle = None
    /\ result.info # None
    /\ RequiredAtt(result.op) \in result.info[1].attributes
    /\ result.info[1].len % size_of_T = 0
    /\ result.max_len # None
    /\ result.info[1].len \div size_of_T > result.max_len[1]

\* C13: read_only / write_only return a handle exactly when the borrow query
\* returns a descriptor whose attributes include the required one and whose
\* byte length is exactly size_of::<T>(); a dead lender, a bad index, a
\* missing attribute, a shorter or a longer lease give no handle.
C13_SizedConstructor ==
    result.op \in {"read_only", "write_only"} =>
        LET info == result.info
            accept == /\ info # None
                      /\ RequiredAtt(result.op) \in info[1].attributes
                      /\ info[1].len = size_of_T
        IN  /\ handle # None <=> accept
            /\ handle # None =>
                 /\ handle[1].lender = result.a
                 /\ handle[1].index = result.b
                 /\ ~handle[1].slice

\* A single-element constructor refused a lease that has the attribute but is
\* longer than one T.
C13_Witness ==
    /\ result.op \in {"read_only", "write_only"}
    /\ handle = None
    /\ result.info # None
    /\ RequiredAtt(result.op) \in result.info[1].attributes
    /\ result.info[1].len > size_of_T


\* The accessors of a Leased value.
Accessors == {"read", "read_at", "read_range", "write", "write_at", "write_range"}

\* The byte count the last accessor call expects of its raw call.
ExpectedBytes ==
    IF result.op \in {"read_range", "write_range"}
    THEN size_of_T * (result.b - result.a)
    ELSE size_of_T

\* C14: an accessor reports success (Some / Ok) exactly when its raw call
\* returned status 0 and a byte count equal to the expected one (one T for
\* read, read_at, write, write_at; S * (end - start) for the range
\* accessors); a nonzero status, a shorter or a longer count gives None /
\* Err, and never a panic.
C14_SuccessIffExactCopy ==
    result.op \in Accessors =>
        /\ result.kind \in {"Some", "Ok"} => result.calls = 1
        /\ result.calls = 1 =>
             /\ result.kind \in {"Some", "Ok", "None", "Err"}
             /\ result.kind \in {"Some", "Ok"}
                  <=> (result.rc = 0 /\ result.n = ExpectedBytes)

\* A range read whose raw call returned status 0 and more bytes than
\* expected, and which returned Err.
C14_Witness ==
    /\ result.op = "read_range"
    /\ result.calls = 1
    /\ result.rc = 0
    /\ result.n > ExpectedBytes
    /\ result.kind = "Err"


\* The lease the handle names, in lease table t, is the one the handle was
\* validated against: lender alive, the attributes of the handle's capability
\* present, len() elements long.
LoanValid(t) ==
    /\ handle # None
    /\ handle[1].lender = gen
    /\ handle[1].index < Len(t)
    /\ required_atts(handle[1].attr) \subseteq t[handle[1].index + 1].atts
    /\ Len(t[handle[1].index + 1].data) = handle[1].len * size_of_T

\* Element j of the lease the handle names, in lease table t.
Element(t, j) ==
    SubSeq(t[handle[1].index + 1].data, j * size_of_T + 1, (j + 1) * size_of_T)

\* C15: on a read-write lease whose lender neither dies nor changes it, a
\* successful write(v) followed by read() returns Some(v); a successful
\* write_at(i, v) followed by read_at(i) returns Some(v), and write_at(i, v)
\* leaves every element j # i of the region as it was.
C15_WriteThenRead ==
    /\ (Len(hist) = 2 /\ LoanValid(hist[1].before) /\ handle[1].attr = "RW"
          /\ hist[1].res.kind = "Ok"
          /\ \/ hist[1].res.op = "write" /\ hist[2].res.op = "read"
             \/ /\ hist[1].res.op = "write_at" /\ hist[2].res.op = "read_at"
                /\ hist[2].res.a = hist[1].res.a)
       => /\ hist[2].res.kind = "Some"
          /\ hist[2].res.value = hist[1].res.value
    /\ \A k \in 1..Len(hist) :
         (LoanValid(hist[k].before) /\ hist[k].res.op = "write_at"
            /\ hist[k].res.kind = "Ok")
         => \A j \in 0..(handle[1].len - 1) :
              j # hist[k].res.a
              => Element(hist[k].after, j) = Element(hist[k].before, j)

\* A two-element read-write slice: write_at(1, v) succeeded with a v other
\* than what the lender held there, then read_at(1) was called.
C15_Witness ==
    /\ Len(hist) = 2
    /\ LoanValid(hist[1].before)
    /\ handle[1].attr = "RW" /\ handle[1].len = 2
    /\ hist[1].res.op = "write_at" /\ hist[1].res.a = 1
    /\ hist[1].res.kind = "Ok"
    /\ hist[1].res.value # Element(hist[1].before, 1)
    /\ hist[2].res.op = "read_at" /\ hist[2].res.a = 1

C17_UnknownOpBeforeSizeCheck ==
    (Terminal /\ TaskMessage /\ from_u32(rm.operation) = None
              /\ rm.message_len > buflen)
    => /\ pc = "returned"
       /\ replies = <<[to |-> rm.sender, code |-> 1, len |-> 0]>>
       /\ handled = <<>>


\* C18: the sys_recv of dispatch is given mask 0; the sys_recv of dispatch_n
\* is given what the server's current_notification_mask() returned, asked
\* once before the receive; both are given the server's recv_source() as the
\* sender to receive from; and a call makes exactly one sys_recv, as its first
\* step.
C18_ReceiveArguments ==
    pc # "idle" =>
        /\ variant = "dispatch" => mask = 0 /\ server.mask_queries = 0
        /\ variant = "dispatch_n" =>
             /\ server.mask # None
             /\ mask = server.mask[1]
             /\ server.mask_queries = 1
        /\ source = server.source
        /\ recvs = 1
        /\ trace[1] = "recv"
        /\ \A k \in 2..Len(trace) : trace[k] # "recv"

\* A dispatch_n call of a server with a nonzero mask and a closed receive
\* received a task message and has ended.
C18_Witness ==
    /\ variant = "dispatch_n"
    /\ Terminal
    /\ server.mask # None /\ server.mask[1] # 0
    /\ server.source # None
    /\ TaskMessage


\* The constructors of a Leased value.
Constructors ==
    {constructor(attr, slice) : attr \in {"R", "W", "RW"}, slice \in BOOLEAN}

\* C19: an accessor call makes at most one raw sys_borrow_read /
\* sys_borrow_write call and does not repeat a failed one; after a failed
\* access (None / Err) the server still runs and still holds the handle; a
\* constructor call makes exactly one sys_borrow_info query.
C19_OneKernelCall ==
    /\ result.op \in Accessors =>
         /\ result.calls <= 1
         /\ result.kind \in {"None", "Err"} => Running /\ handle # None
    /\ result.op \in Constructors => result.calls = 1

\* read_at made its one raw call, was refused by the kernel and returned
\* None; the handle is still held.
C19_Witness ==
    /\ result.op = "read_at"
    /\ result.calls = 1
    /\ result.rc # 0
    /\ result.kind = "None"
    /\ handle # None


\* C20: a Leased value does not change after its construction: whatever
\* accessor is called, whether it succeeds or fails, and whether the lender
\* is restarted or lends a region of another size, lender(), lease_index(),
\* len() and is_empty() go on returning the same values; is_empty() holds
\* exactly when len() = 0; and a single-element handle has len 1.
C20_HandleImmutable ==
    /\ [](handle # None =>
            /\ is_empty(handle[1]) <=> len(handle[1]) = 0
            /\ ~handle[1].slice => len(handle[1]) = 1)
    /\ [][(handle # None /\ handle' # None) =>
            /\ lender(handle[1])' = lender(handle[1])
            /\ lease_index(handle[1])' = lease_index(handle[1])
            /\ len(handle[1])' = len(handle[1])
            /\ is_empty(handle[1])' = is_empty(handle[1])]_vars

\* A slice handle is held, an accessor has been called on it, and the lender,
\* still alive, now lends a region of another size than the handle was
\* validated against.
C20_Witness ==
    /\ handle # None
    /\ handle[1].slice
    /\ result.op \in Accessors
    /\ lender(handle[1]) = gen
    /\ table # <<>>
    /\ Len(table[1].data) # len(handle[1]) * size_of_T


\* C21: every reply a routine sends itself (status 1, status 2, or the code
\* of the handler's Err) goes to the sender of the message that call
\* received and has an empty payload; no reply goes to the kernel's identity
\* (in dispatch_n a message from the kernel is a notification and gets none).
C21_RepliesToSender ==
    /\ \A k \in 1..Len(replies) :
         /\ recv_result = "ok"
         /\ replies[k].to = rm.sender
         /\ replies[k].len = 0
         /\ replies[k].to # KERNEL
    /\ (variant = "dispatch_n" /\ recv_result = "ok" /\ rm.sender = KERNEL)
       => replies = <<>>

\* A dispatch_n call of a server that accepts notifications and receives
\* from any task answered a task's message with the handler's error code.
C21_Witness ==
    /\ variant = "dispatch_n"
    /\ pc = "returned"
    /\ mask # 0
    /\ source = None
    /\ Len(handled) = 1
    /\ ~handled[1].result.ok
    /\ replies = <<[to |-> rm.sender, code |-> handled[1].result.code, len |-> 0]>>
    /\ rm.sender \in Tasks

====
